---- MODULE Spec2Model ----
(***************************************************************************)
(* Model of the Android vendored-module versioning pipeline,               *)
(* tools/src/versioning/android/versionVendoredModules.ts.                 *)
(*                                                                         *)
(* The filesystem below ANDROID_DIR/vendored is the state: files maps    *)
(* each existing file path (a sequence of path segments) to its content    *)
(* and dirs is the set of existing directories.  One action is one       *)
(* awaited step of versionVendoredModulesAsync / maybePrebuildSharedLibs-  *)
(* Async, so that every point where the code can throw, and every          *)
(* interleaving of the Promise.all artifact copies, is a state.            *)
(***************************************************************************)
EXTENDS Integers, Sequences, FiniteSets, TLC

(***************************************************************************)
(* Bounds and the inputs the model enumerates.                             *)
(***************************************************************************)

\* Number of architectures the external build produces a library for.
NumArchs == 2

ArchNames == <<"arm64-v8a", "x86", "armeabi-v7a", "x86_64">>

SdkNumbers == {44, 45}

\* abi${sdkNumber}_0_0
PrefixTable == [n \in SdkNumbers |-> IF n = 44 THEN "abi44_0_0" ELSE "abi45_0_0"]

\* sdk${sdkNumber}
SdkDirTable == [n \in SdkNumbers |-> IF n = 44 THEN "sdk44" ELSE "sdk45"]

ModA == <<"modA">>
ModB == <<"modB">>
ModC == <<"@scope", "modC">>
ModOld == <<"modOld">>
ModNone == <<"nope">>
ModP == <<"modP">>

\* Longest relative path of the drawn source files of modP.
MaxPathLen == 4

PathSegs == {"java", "abi45_0_0", "x"}

FileNames == {"java", "x"}

\* directories of java, abi45_0_0 and x segments, then a file name
RelPaths ==
  {d \o <<f>> : d \in UNION {[1..n -> PathSegs] : n \in 1..(MaxPathLen - 1)}, f \in FileNames}

(***************************************************************************)
(* Paths.                                                                  *)
(***************************************************************************)

IsPrefix(p, q) == Len(p) <= Len(q) /\ SubSeq(q, 1, Len(p)) = p

\* path.join of two segment sequences
Join(p, q) == p \o q

\* path.dirname as a segment sequence
DirName(p) == SubSeq(p, 1, Len(p) - 1)

\* path.basename
BaseName(p) == p[Len(p)]

\* every directory that must exist for the file or directory p to exist
ParentDirs(p) == {SubSeq(p, 1, i) : i \in 1..(Len(p) - 1)}

UnversionedDir == <<"unversioned">>

\* Largest SDK number whose prefix and directory name are compared.
MaxSdkNumber == 50

\* the decimal digits of n, as template literals write a number
RECURSIVE DecimalDigits(_)
DecimalDigits(n) == IF n < 10 THEN <<n>> ELSE Append(DecimalDigits(n \div 10), n % 10)

\* abi${sdkNumber}_0_0, character by character
versionPrefix(n) == <<"a", "b", "i">> \o DecimalDigits(n) \o <<"_", 0, "_", 0>>

\* sdk${sdkNumber}, character by character
sdkDirName(n) == <<"s", "d", "k">> \o DecimalDigits(n)

\* mutant: the directory does not depend on the SDK number
vendoredDirectoryForOneSDK(sdkNumber) == <<SdkDirTable[44]>>

vendoredDirectoryForSDK(sdkNumber) == <<SdkDirTable[sdkNumber]>>

(***************************************************************************)
(* File contents.  origin is the source file the bytes come from,        *)
(* abi the SDK whose prefix was written into them (0: none) and          *)
(* applied the content rules applied, in order.                          *)
(***************************************************************************)

SourceContent(path) ==
  [kind |-> "source", origin |-> path, abi |-> 0, applied |-> <<>>]

StaleContent ==
  [kind |-> "stale", origin |-> <<>>, abi |-> 0, applied |-> <<>>]

EmptyContent ==
  [kind |-> "empty", origin |-> <<>>, abi |-> 0, applied |-> <<>>]

LibContent(module, sdkNumber, file) ==
  [kind |-> "lib", origin |-> Join(module, file), abi |-> sdkNumber, applied |-> <<>>]

(***************************************************************************)
(* Filesystem primitives (fs-extra).                                       *)
(***************************************************************************)

\* mutant: only the entries directly in p are removed
RemoveFilesShallow(fs, p) ==
  [q \in {r \in DOMAIN fs : ~(IsPrefix(p, r) /\ Len(r) <= Len(p) + 1)} |-> fs[q]]

\* fs.remove(p): the file p, or the directory p with everything below it
RemoveFiles(fs, p) == [q \in {r \in DOMAIN fs : ~IsPrefix(p, r)} |-> fs[q]]

RemoveDirs(ds, p) == {d \in ds : ~IsPrefix(p, d)}

\* writing a file (creating or overwriting it)
PutFile(fs, p, c) == [q \in (DOMAIN fs) \cup {p} |-> IF q = p THEN c ELSE fs[q]]

\* fs.ensureDir(p): p and its missing parents
EnsureDir(ds, p) == ds \cup ParentDirs(p) \cup {p}

FilesUnder(fs, dir) == {q \in DOMAIN fs : IsPrefix(dir, q)}

\* the part of the filesystem below dir (files and directories)
TreeUnder(fs, ds, dir) ==
  [f |-> [q \in FilesUnder(fs, dir) |-> fs[q]], d |-> {x \in ds : IsPrefix(dir, x)}]

(***************************************************************************)
(* The unversioned tree: three modules.  @scope/modC and modB carry a      *)
(* native build descriptor (android/CMakeLists.txt), modA does not; modA   *)
(* also has a nested build.gradle that the discovery pattern does not      *)
(* match.                                                                  *)
(***************************************************************************)

CMakeRel == <<"android", "CMakeLists.txt">>
GradleRel == <<"android", "build.gradle">>

ModuleSources(module) ==
  IF module = ModA
    THEN {GradleRel, <<"android", "lib", "build.gradle">>, <<"android", "res", "icon.png">>}
  ELSE IF module = ModB
    THEN {GradleRel, CMakeRel, <<"android", "src", "main", "java", "com", "Foo.java">>}
  ELSE IF module = ModC
    THEN {GradleRel, CMakeRel}
  ELSE {}

UnversionedModules == {ModA, ModB, ModC}

UnversionedPaths ==
  UNION {{Join(UnversionedDir, Join(m, rel)) : rel \in ModuleSources(m)} : m \in UnversionedModules}

UnversionedFiles == [p \in UnversionedPaths |-> SourceContent(p)]

\* the order in which glob (which sorts its matches) reports the descriptors
GlobOrder == <<ModC, ModA, ModB, ModOld, ModP, ModNone>>

(***************************************************************************)
(* getVendoredModuleNamesAsync: every **/build.gradle below directory    *)
(* whose path is directory/NAME/android/build.gradle yields NAME (one or   *)
(* more segments); the others are skipped.                                 *)
(***************************************************************************)

MatchesGradlePattern(directory, p) ==
  /\ IsPrefix(directory, p)
  /\ Len(p) >= Len(directory) + 3
  /\ p[Len(p)] = "build.gradle"
  /\ p[Len(p) - 1] = "android"

\* mutant: the descriptors are searched in the whole vendored directory
getVendoredModuleNamesAnywhere(fs, directory) ==
  LET found == {SubSeq(p, Len(directory) + 1, Len(p) - 2) :
                  p \in {q \in DOMAIN fs : /\ Len(q) >= Len(directory) + 3
                                            /\ q[Len(q)] = "build.gradle"
                                            /\ q[Len(q) - 1] = "android"}}
      Test(m) == m \in found
  IN SelectSeq(GlobOrder, Test)

getVendoredModuleNames(fs, directory) ==
  LET vendoredGradlePaths == {p \in DOMAIN fs : IsPrefix(directory, p) /\ BaseName(p) = "build.gradle"}
      found == {SubSeq(p, Len(directory) + 1, Len(p) - 2) :
                  p \in {q \in vendoredGradlePaths : MatchesGradlePattern(directory, q)}}
      Test(m) == m \in found
  IN SelectSeq(GlobOrder, Test)

(***************************************************************************)
(* Transform rules.                                                        *)
(***************************************************************************)

\* the glob class of a file name: the part of the name the rules' paths look at
GlobClass(name) ==
  IF name \in {"Foo.java"} THEN "java"
  ELSE IF name \in {"build.gradle", "CMakeLists.txt", "AndroidManifest.xml"} THEN name
  ELSE "other"

\* mutant: the java segment is replaced by the prefix instead of kept
BasePathRulesDroppingJava(prefix) == << [find |-> "java", replaceWith |-> <<prefix>>] >>

\* baseTransformsFactory(prefix).path: /\/java\// -> /java/${prefix}/
BasePathRules(prefix) == << [find |-> "java", replaceWith |-> <<"java", prefix>>] >>

\* baseTransformsFactory(prefix).content, in declared order
BaseContentRules ==
  << [id |-> "package",         paths |-> {"java", "kt"}],
     [id |-> "facebook",        paths |-> {"java", "kt"}],
     [id |-> "loadLibrary",     paths |-> {"java", "kt"}],
     [id |-> "kJavaDescriptor", paths |-> {"h", "cpp"}],
     [id |-> "rnDependency",    paths |-> {"build.gradle"}],
     [id |-> "buildDirJni",     paths |-> {"build.gradle"}],
     [id |-> "reactNativeDir",  paths |-> {"build.gradle", "CMakeLists.txt"}],
     [id |-> "rnAAR",           paths |-> {"build.gradle"}],
     [id |-> "packageName",     paths |-> {"CMakeLists.txt"}],
     [id |-> "findLibrary",     paths |-> {"CMakeLists.txt"}],
     [id |-> "manifestPackage", paths |-> {"AndroidManifest.xml"}] >>

\* vendoredModulesTransforms(prefix)[name]: modB has a path rule that moves
\* its java directory, @scope/modC a content rule, modA has no entry
ModulePathRules(module) ==
  IF module = ModB THEN << [find |-> "java", replaceWith |-> <<"kotlin">>] >> ELSE <<>>

ModuleContentRules(module) ==
  IF module = ModC THEN << [id |-> "modCOverride", paths |-> {"build.gradle"}] >> ELSE <<>>

\* a path rule rewrites the first /find/ of the relative path; the match
\* needs a segment before it and one after it
FirstMatch(rel, find) ==
  LET hits == {i \in 2..(Len(rel) - 1) : rel[i] = find}
  IN IF hits = {} THEN 0 ELSE CHOOSE i \in hits : \A j \in hits : i <= j

ApplyPathRule(rel, rule) ==
  LET i == FirstMatch(rel, rule.find)
  IN IF i = 0 THEN rel
     ELSE SubSeq(rel, 1, i - 1) \o rule.replaceWith \o SubSeq(rel, i + 1, Len(rel))

RECURSIVE TransformPath(_, _)
TransformPath(rel, rules) ==
  IF rules = <<>> THEN rel
  ELSE TransformPath(ApplyPathRule(rel, Head(rules)), Tail(rules))

\* the content rules that apply to the file, in order
ApplicableRules(rel, rules) ==
  LET Test(r) == GlobClass(BaseName(rel)) \in r.paths
      picked == SelectSeq(rules, Test)
  IN [i \in 1..Len(picked) |-> picked[i].id]

\* no applicable rule: the bytes are copied unchanged
TransformContent(content, rel, rules, sdkNumber) ==
  LET ids == ApplicableRules(rel, rules)
  IN IF ids = <<>> THEN content
     ELSE [content EXCEPT !.abi = sdkNumber, !.applied = content.applied \o ids]

\* copyFileWithTransformsAsync: the destination path and the file written there
TargetPath(sourceFile, targetDirectory, pathRules) ==
  Join(targetDirectory, TransformPath(sourceFile, pathRules))

copyFileWithTransforms(fs, sourceFile, sourceDirectory, targetDirectory, pathRules, contentRules, sdk) ==
  PutFile(fs, TargetPath(sourceFile, targetDirectory, pathRules),
          TransformContent(fs[Join(sourceDirectory, sourceFile)], sourceFile, contentRules, sdk))

\* searchFilesAsync(directory, '**'): the files below directory, relative to it
searchFiles(fs, directory) ==
  {SubSeq(p, Len(directory) + 1, Len(p)) : p \in FilesUnder(fs, directory)}

(***************************************************************************)
(* Paths of maybePrebuildSharedLibsAsync.                                  *)
(***************************************************************************)

ModuleRootDir(module, sdk) == Join(<<SdkDirTable[sdk]>>, Join(module, <<"android">>))

\* mutant: the descriptor is looked up in the unversioned module
CMakeFileInSource(module, sdk) == Join(<<"unversioned">>, Join(module, <<"android", "CMakeLists.txt">>))

CMakeFile(module, sdk) == Join(ModuleRootDir(module, sdk), <<"CMakeLists.txt">>)

JniLibDir(module, sdk) == Join(ModuleRootDir(module, sdk), <<"src", "main", "jniLibs">>)

BuildDir(module, sdk) == Join(ModuleRootDir(module, sdk), <<"build">>)

BuildLibDir(module, sdk) ==
  Join(BuildDir(module, sdk), <<"intermediates", "library_jni", "release", "jni">>)

IsSharedLib(name) == name \in {"libB.so", "libC.so", "libold.so"}

\* glob('**/*.so', {cwd: buildLibDir})
GlobLibFiles(fs, buildLibDir) ==
  {f \in searchFiles(fs, buildLibDir) : IsSharedLib(BaseName(f))}

\* path.join(jniLibDir, path.basename(path.dirname(file)), path.basename(file))
LibDstPath(jniLibDir, file) ==
  IF Len(file) = 1 THEN Join(jniLibDir, file)
  ELSE Join(jniLibDir, <<file[Len(file) - 1], file[Len(file)]>>)

(***************************************************************************)
(* The external build (gradlew ...:copyReleaseJniLibsProjectOnly): what it *)
(* leaves below moduleRootDir/build.  modB gets one library per            *)
(* architecture; whether @scope/modC produces a library is drawn in Init.  *)
(***************************************************************************)

ObjectFile == <<"tmp", "cxx", "out.o">>

LibsOfModB == {<<ArchNames[i], "libB.so">> : i \in 1..NumArchs}

BuildTables ==
  {[m \in UnversionedModules |->
      IF m = ModB THEN LibsOfModB ELSE IF m = ModC THEN libsC ELSE {}] :
     libsC \in {{}, {<<"x86", "libC.so">>}}}

RECURSIVE PutAll(_, _, _, _, _)
PutAll(fs, module, sdk, dir, libs) ==
  IF libs = {} THEN fs
  ELSE LET f == CHOOSE x \in libs : TRUE
       IN PutAll(PutFile(fs, Join(dir, f), LibContent(module, sdk, f)),
                 module, sdk, dir, libs \ {f})

\* the filesystem after a successful build
BuildOutput(fs, module, sdk, libs) ==
  PutAll(PutFile(fs, Join(BuildDir(module, sdk), ObjectFile), LibContent(module, sdk, ObjectFile)),
         module, sdk, BuildLibDir(module, sdk), libs)

AllDirsOf(fs) == UNION {ParentDirs(p) : p \in DOMAIN fs}

(***************************************************************************)
(* State.                                                                  *)
(***************************************************************************)

VARIABLES
  files,          \* path -> content, everything below ANDROID_DIR/vendored
  dirs,           \* the directories that exist
  buildOut,       \* what the external build produces, per module
  op,             \* the operation called last: "none", "version" or "remove"
  pc,             \* position of the running operation
  error,          \* the error versionVendoredModulesAsync rejected with
  sdkNumber,      \* argument of the running operation
  filterModules,  \* argument of the running operation
  names,          \* vendoredModuleNames after filtering
  idx,            \* position of the for loop in names (0: before the first)
  pendingFiles,   \* files of the current module not yet copied
  libTasks,       \* the Promise.all callbacks: libFile -> step
  spawned,        \* modules the external build was invoked for in this run
  startFiles,     \* files when the running (or last) operation was called
  startDirs,      \* dirs when the running (or last) operation was called
  prevOp          \* the operation completed before the running one

vars == <<files, dirs, buildOut, op, pc, error, sdkNumber, filterModules, names, idx,
          pendingFiles, libTasks, spawned, startFiles, startDirs, prevOp>>

NullFilter == [isNull |-> TRUE, names |-> <<>>]

ListFilter(ns) == [isNull |-> FALSE, names |-> ns]

Filters == {NullFilter, ListFilter(<<ModB, ModA, ModB>>), ListFilter(<<ModNone, ModC>>)}

NoOp == [op |-> "none", sdk |-> 0, filter |-> NullFilter]

\* what an earlier run may have left in the versioned tree of an SDK
StalePaths(sdk) ==
  { Join(ModuleRootDir(ModB, sdk), <<"Old.java">>),
    CMakeFile(ModA, sdk),
    Join(JniLibDir(ModA, sdk), <<"x86", "libold.so">>),
    Join(ModuleRootDir(ModC, sdk), <<"src", "main", "java", "Gone.java">>),
    Join(ModuleRootDir(ModOld, sdk), <<"build.gradle">>) }

\* the unversioned root directory may be missing altogether
Init ==
  /\ \E prior \in [SdkNumbers -> BOOLEAN], rootExists \in BOOLEAN :
       LET stale == UNION {IF prior[n] THEN StalePaths(n) ELSE {} : n \in SdkNumbers}
           sources == IF rootExists THEN UnversionedPaths ELSE {}
       IN /\ files = [p \in sources \cup stale |->
                        IF p \in stale THEN StaleContent ELSE SourceContent(p)]
          /\ dirs = AllDirsOf(files) \cup (IF rootExists THEN {UnversionedDir} ELSE {})
  /\ buildOut \in BuildTables
  /\ op = "none"
  /\ pc = "idle"
  /\ error = "none"
  /\ sdkNumber = 0
  /\ filterModules = NullFilter
  /\ names = <<>>
  /\ idx = 0
  /\ pendingFiles = {}
  /\ libTasks = <<>>
  /\ spawned = {}
  /\ startFiles = files
  /\ startDirs = dirs
  /\ prevOp = NoOp

(***************************************************************************)
(* versionVendoredModulesAsync(sdkNumber, filterModules)                   *)
(***************************************************************************)

CurModule == names[idx]

SourceDirectory == Join(UnversionedDir, CurModule)

TargetDirectory == Join(vendoredDirectoryForSDK(sdkNumber), CurModule)

\* mutant: the filter is not applied
FilterNamesIgnored(found, filter) == found

\* mutant: the filter's names are kept, in the filter's order
FilterNamesInFilterOrder(found, filter) ==
  LET Test(m) == \E i \in 1..Len(found) : found[i] = m
  IN IF filter.isNull THEN found ELSE SelectSeq(filter.names, Test)

\* vendoredModuleNames.filter((name) => filterModules.includes(name))
FilterNames(found, filter) ==
  LET Test(m) == \E i \in 1..Len(filter.names) : filter.names[i] = m
  IN IF filter.isNull THEN found ELSE SelectSeq(found, Test)

\* lines 24-32: the arguments are taken and the modules are discovered
VersionVendoredModulesAsync(sdk, filter) ==
  /\ pc = "idle"
  /\ pc' = "loop"
  /\ op' = "version"
  /\ sdkNumber' = sdk
  /\ filterModules' = filter
  /\ names' = FilterNames(getVendoredModuleNames(files, UnversionedDir), filter)
  /\ idx' = 0
  /\ error' = "none"
  /\ spawned' = {}
  /\ pendingFiles' = {}
  /\ libTasks' = <<>>
  /\ startFiles' = files
  /\ startDirs' = dirs
  /\ prevOp' = [op |-> op, sdk |-> sdkNumber, filter |-> filterModules]
  /\ UNCHANGED <<files, dirs, buildOut>>

\* mutant: the target is not removed
BeginModuleKeepingTarget ==
  /\ pc = "loop"
  /\ idx < Len(names)
  /\ idx' = idx + 1
  /\ pendingFiles' = searchFiles(files, Join(UnversionedDir, names[idx + 1]))
  /\ pc' = "copy"
  /\ UNCHANGED <<files, dirs, buildOut, op, error, sdkNumber, filterModules, names, libTasks,
                 spawned, startFiles, startDirs, prevOp>>

\* mutant: the whole versioned directory is removed at each module
BeginModuleRemovingAll ==
  /\ pc = "loop"
  /\ idx < Len(names)
  /\ idx' = idx + 1
  /\ pendingFiles' = searchFiles(files, Join(UnversionedDir, names[idx + 1]))
  /\ files' = RemoveFiles(files, vendoredDirectoryForSDK(sdkNumber))
  /\ dirs' = RemoveDirs(dirs, vendoredDirectoryForSDK(sdkNumber))
  /\ pc' = "copy"
  /\ UNCHANGED <<buildOut, op, error, sdkNumber, filterModules, names, libTasks, spawned,
                 startFiles, startDirs, prevOp>>

\* lines 34-42: the next module; its files are listed and its target removed
BeginModule ==
  /\ pc = "loop"
  /\ idx < Len(names)
  /\ idx' = idx + 1
  /\ LET module == names[idx + 1]
         sourceDirectory == Join(UnversionedDir, module)
         targetDirectory == Join(vendoredDirectoryForSDK(sdkNumber), module)
     IN /\ pendingFiles' = searchFiles(files, sourceDirectory)
        /\ files' = RemoveFiles(files, targetDirectory)
        /\ dirs' = RemoveDirs(dirs, targetDirectory)
  /\ pc' = "copy"
  /\ UNCHANGED <<buildOut, op, error, sdkNumber, filterModules, names, libTasks, spawned,
                 startFiles, startDirs, prevOp>>

\* mutant: the module's rules are put before the base rules
CopyFileOverridesFirst(sourceFile) ==
  /\ pc = "copy"
  /\ sourceFile \in pendingFiles
  /\ LET pathRules == ModulePathRules(CurModule) \o BasePathRules(PrefixTable[sdkNumber])
         contentRules == ModuleContentRules(CurModule) \o BaseContentRules
     IN /\ files' = copyFileWithTransforms(files, sourceFile, SourceDirectory, TargetDirectory,
                                           pathRules, contentRules, sdkNumber)
        /\ dirs' = dirs \cup ParentDirs(TargetPath(sourceFile, TargetDirectory, pathRules))
  /\ pendingFiles' = pendingFiles \ {sourceFile}
  /\ UNCHANGED <<buildOut, op, pc, error, sdkNumber, filterModules, names, idx, libTasks, spawned,
                 startFiles, startDirs, prevOp>>

\* lines 44-54: one iteration of the loop over files
CopyFile(sourceFile) ==
  /\ pc = "copy"
  /\ sourceFile \in pendingFiles
  /\ LET pathRules == BasePathRules(PrefixTable[sdkNumber]) \o ModulePathRules(CurModule)
         contentRules == BaseContentRules \o ModuleContentRules(CurModule)
     IN /\ files' = copyFileWithTransforms(files, sourceFile, SourceDirectory, TargetDirectory,
                                           pathRules, contentRules, sdkNumber)
        /\ dirs' = dirs \cup ParentDirs(TargetPath(sourceFile, TargetDirectory, pathRules))
  /\ pendingFiles' = pendingFiles \ {sourceFile}
  /\ UNCHANGED <<buildOut, op, pc, error, sdkNumber, filterModules, names, idx, libTasks, spawned,
                 startFiles, startDirs, prevOp>>

\* mutant: the error is caught per file and the loop goes on
TransformFailsSkipped(sourceFile) ==
  /\ pc = "copy"
  /\ sourceFile \in pendingFiles
  /\ error' = "transform"
  /\ pendingFiles' = pendingFiles \ {sourceFile}
  /\ UNCHANGED <<files, dirs, buildOut, op, pc, sdkNumber, filterModules, names, idx,
                 libTasks, spawned, startFiles, startDirs, prevOp>>

\* copyFileWithTransformsAsync rejects: the error leaves the for loops
TransformFails(sourceFile) ==
  /\ pc = "copy"
  /\ sourceFile \in pendingFiles
  /\ pc' = "failed"
  /\ error' = "transform"
  /\ UNCHANGED <<files, dirs, buildOut, op, sdkNumber, filterModules, names, idx, pendingFiles,
                 libTasks, spawned, startFiles, startDirs, prevOp>>

(***************************************************************************)
(* maybePrebuildSharedLibsAsync(module, sdkNumber)                         *)
(***************************************************************************)

\* lines 64-68: no CMakeLists.txt in the versioned module, nothing to do
PrebuildSkip ==
  /\ pc = "copy"
  /\ pendingFiles = {}
  /\ CMakeFile(CurModule, sdkNumber) \notin DOMAIN files
  /\ pc' = "loop"
  /\ UNCHANGED <<files, dirs, buildOut, op, error, sdkNumber, filterModules, names, idx,
                 pendingFiles, libTasks, spawned, startFiles, startDirs, prevOp>>

\* mutant: the build is started without looking for the descriptor
PrebuildSpawnAlways ==
  /\ pc = "copy"
  /\ pendingFiles = {}
  /\ pc' = "spawn"
  /\ spawned' = spawned \cup {CurModule}
  /\ UNCHANGED <<files, dirs, buildOut, op, error, sdkNumber, filterModules, names, idx,
                 pendingFiles, libTasks, startFiles, startDirs, prevOp>>

\* lines 70-80: the external build is started
PrebuildSpawn ==
  /\ pc = "copy"
  /\ pendingFiles = {}
  /\ CMakeFile(CurModule, sdkNumber) \in DOMAIN files
  /\ pc' = "spawn"
  /\ spawned' = spawned \cup {CurModule}
  /\ UNCHANGED <<files, dirs, buildOut, op, error, sdkNumber, filterModules, names, idx,
                 pendingFiles, libTasks, startFiles, startDirs, prevOp>>

\* mutant: the assertion asks for at least one library
BuildSucceedsAssertingSome ==
  /\ pc = "spawn"
  /\ LET built == BuildOutput(files, CurModule, sdkNumber, buildOut[CurModule])
         libFiles == GlobLibFiles(built, BuildLibDir(CurModule, sdkNumber))
     IN /\ files' = built
        /\ dirs' = dirs \cup AllDirsOf(built)
        /\ IF Cardinality(libFiles) > 0
             THEN /\ libTasks' = [f \in libFiles |-> "ensureDir"]
                  /\ pc' = "stage"
                  /\ error' = error
             ELSE /\ libTasks' = libTasks
                  /\ pc' = "failed"
                  /\ error' = "assert"
  /\ UNCHANGED <<buildOut, op, sdkNumber, filterModules, names, idx, pendingFiles, spawned,
                 startFiles, startDirs, prevOp>>

\* spawnAsync resolves; lines 82-96: the produced libraries are listed,
\* assert(libFiles.length >= 0) is evaluated and one copy callback per
\* library is started
BuildSucceeds ==
  /\ pc = "spawn"
  /\ LET built == BuildOutput(files, CurModule, sdkNumber, buildOut[CurModule])
         libFiles == GlobLibFiles(built, BuildLibDir(CurModule, sdkNumber))
     IN /\ files' = built
        /\ dirs' = dirs \cup AllDirsOf(built)
        /\ IF Cardinality(libFiles) >= 0
             THEN /\ libTasks' = [f \in libFiles |-> "ensureDir"]
                  /\ pc' = "stage"
                  /\ error' = error
             ELSE /\ libTasks' = libTasks
                  /\ pc' = "failed"
                  /\ error' = "assert"
  /\ UNCHANGED <<buildOut, op, sdkNumber, filterModules, names, idx, pendingFiles, spawned,
                 startFiles, startDirs, prevOp>>

\* mutant: the descriptor is truncated in a finally block, also on failure
BuildFailsTruncating ==
  /\ pc = "spawn"
  /\ files' = PutFile(files, CMakeFile(CurModule, sdkNumber), EmptyContent)
  /\ pc' = "failed"
  /\ error' = "build"
  /\ UNCHANGED <<dirs, buildOut, op, sdkNumber, filterModules, names, idx, pendingFiles,
                 libTasks, spawned, startFiles, startDirs, prevOp>>

\* spawnAsync rejects (non-zero exit); the build may have left output behind
BuildFails ==
  /\ pc = "spawn"
  /\ \E partial \in BOOLEAN :
       LET left == IF partial
                     THEN PutFile(files, Join(BuildDir(CurModule, sdkNumber), ObjectFile),
                                  LibContent(CurModule, sdkNumber, ObjectFile))
                     ELSE files
       IN /\ files' = left
          /\ dirs' = dirs \cup AllDirsOf(left)
  /\ pc' = "failed"
  /\ error' = "build"
  /\ UNCHANGED <<buildOut, op, sdkNumber, filterModules, names, idx, pendingFiles, libTasks,
                 spawned, startFiles, startDirs, prevOp>>

\* line 100: await fs.ensureDir(path.dirname(dstPath))
StageEnsureDir(file) ==
  /\ pc \in {"stage", "failed"}
  /\ file \in DOMAIN libTasks
  /\ libTasks[file] = "ensureDir"
  /\ dirs' = EnsureDir(dirs, DirName(LibDstPath(JniLibDir(CurModule, sdkNumber), file)))
  /\ libTasks' = [libTasks EXCEPT ![file] = "copy"]
  /\ UNCHANGED <<files, buildOut, op, pc, error, sdkNumber, filterModules, names, idx,
                 pendingFiles, spawned, startFiles, startDirs, prevOp>>

\* line 101: await fs.copy(srcPath, dstPath)
StageCopy(file) ==
  /\ pc \in {"stage", "failed"}
  /\ file \in DOMAIN libTasks
  /\ libTasks[file] = "copy"
  /\ files' = PutFile(files, LibDstPath(JniLibDir(CurModule, sdkNumber), file),
                      files[Join(BuildLibDir(CurModule, sdkNumber), file)])
  /\ libTasks' = [libTasks EXCEPT ![file] = "done"]
  /\ UNCHANGED <<dirs, buildOut, op, pc, error, sdkNumber, filterModules, names, idx,
                 pendingFiles, spawned, startFiles, startDirs, prevOp>>

\* a callback rejects: Promise.all rejects at once, the other callbacks go on
StageFails(file) ==
  /\ pc \in {"stage", "failed"}
  /\ file \in DOMAIN libTasks
  /\ libTasks[file] \in {"ensureDir", "copy"}
  /\ libTasks' = [libTasks EXCEPT ![file] = "failed"]
  /\ pc' = "failed"
  /\ error' = IF error = "none" THEN "copy" ELSE error
  /\ UNCHANGED <<files, dirs, buildOut, op, sdkNumber, filterModules, names, idx,
                 pendingFiles, spawned, startFiles, startDirs, prevOp>>

\* mutant: the descriptor of the unversioned module is truncated
TruncateSourceCMake ==
  /\ pc = "stage"
  /\ \A f \in DOMAIN libTasks : libTasks[f] = "done"
  /\ files' = PutFile(files, Join(SourceDirectory, CMakeRel), EmptyContent)
  /\ pc' = "cleanup"
  /\ UNCHANGED <<dirs, buildOut, op, error, sdkNumber, filterModules, names, idx, pendingFiles,
                 libTasks, spawned, startFiles, startDirs, prevOp>>

\* mutant: Promise.all is not awaited
TruncateCMakeEarly ==
  /\ pc = "stage"
  /\ files' = PutFile(files, CMakeFile(CurModule, sdkNumber), EmptyContent)
  /\ pc' = "cleanup"
  /\ UNCHANGED <<dirs, buildOut, op, error, sdkNumber, filterModules, names, idx, pendingFiles,
                 libTasks, spawned, startFiles, startDirs, prevOp>>

\* Promise.all has resolved; line 106: fs.writeFile(cmakeFile, '')
TruncateCMake ==
  /\ pc = "stage"
  /\ \A f \in DOMAIN libTasks : libTasks[f] = "done"
  /\ files' = PutFile(files, CMakeFile(CurModule, sdkNumber), EmptyContent)
  /\ pc' = "cleanup"
  /\ UNCHANGED <<dirs, buildOut, op, error, sdkNumber, filterModules, names, idx, pendingFiles,
                 libTasks, spawned, startFiles, startDirs, prevOp>>

\* line 107: fs.remove(path.join(moduleRootDir, 'build'))
RemoveBuild ==
  /\ pc = "cleanup"
  /\ files' = RemoveFiles(files, BuildDir(CurModule, sdkNumber))
  /\ dirs' = RemoveDirs(dirs, BuildDir(CurModule, sdkNumber))
  /\ pc' = "loop"
  /\ UNCHANGED <<buildOut, op, error, sdkNumber, filterModules, names, idx, pendingFiles,
                 libTasks, spawned, startFiles, startDirs, prevOp>>

\* line 58: the loop over the modules is over, the promise resolves
FinishRun ==
  /\ pc = "loop"
  /\ idx = Len(names)
  /\ pc' = "done"
  /\ UNCHANGED <<files, dirs, buildOut, op, error, sdkNumber, filterModules, names, idx,
                 pendingFiles, libTasks, spawned, startFiles, startDirs, prevOp>>

\* the caller goes on to its next operation
Return ==
  /\ pc = "done"
  /\ pc' = "idle"
  /\ UNCHANGED <<files, dirs, buildOut, op, error, sdkNumber, filterModules, names, idx,
                 pendingFiles, libTasks, spawned, startFiles, startDirs, prevOp>>

(***************************************************************************)
(* removeVersionedVendoredModulesAsync(sdkNumber)                          *)
(***************************************************************************)

\* mutant: only the targets of the modules found in the unversioned tree go
RemoveOnlyDiscoveredModules(sdk) ==
  /\ pc = "idle"
  /\ LET found == getVendoredModuleNames(files, UnversionedDir)
         Gone(p) == \E i \in 1..Len(found) : IsPrefix(Join(vendoredDirectoryForSDK(sdk), found[i]), p)
     IN /\ files' = [q \in {r \in DOMAIN files : ~Gone(r)} |-> files[q]]
        /\ dirs' = {d \in dirs : ~Gone(d)}
  /\ op' = "remove"
  /\ sdkNumber' = sdk
  /\ startFiles' = files
  /\ startDirs' = dirs
  /\ prevOp' = [op |-> op, sdk |-> sdkNumber, filter |-> filterModules]
  /\ UNCHANGED <<buildOut, pc, error, filterModules, names, idx, pendingFiles,
                 libTasks, spawned>>

\* mutant: the whole vendored directory of versioned SDKs is removed
RemoveEveryVersionedDir(sdk) ==
  /\ pc = "idle"
  /\ files' = [q \in {r \in DOMAIN files : IsPrefix(UnversionedDir, r)} |-> files[q]]
  /\ dirs' = {d \in dirs : IsPrefix(UnversionedDir, d)}
  /\ op' = "remove"
  /\ sdkNumber' = sdk
  /\ startFiles' = files
  /\ startDirs' = dirs
  /\ prevOp' = [op |-> op, sdk |-> sdkNumber, filter |-> filterModules]
  /\ UNCHANGED <<buildOut, pc, error, filterModules, names, idx, pendingFiles,
                 libTasks, spawned>>

RemoveVersionedVendoredModulesAsync(sdk) ==
  /\ pc = "idle"
  /\ files' = RemoveFiles(files, vendoredDirectoryForSDK(sdk))
  /\ dirs' = RemoveDirs(dirs, vendoredDirectoryForSDK(sdk))
  /\ op' = "remove"
  /\ sdkNumber' = sdk
  /\ startFiles' = files
  /\ startDirs' = dirs
  /\ prevOp' = [op |-> op, sdk |-> sdkNumber, filter |-> filterModules]
  /\ UNCHANGED <<buildOut, pc, error, filterModules, names, idx, pendingFiles,
                 libTasks, spawned>>

Next ==
  \/ \E sdk \in SdkNumbers, filter \in Filters : VersionVendoredModulesAsync(sdk, filter)
  \/ BeginModule
  \/ \E f \in pendingFiles : CopyFile(f)
  \/ \E f \in pendingFiles : TransformFails(f)
  \/ PrebuildSkip
  \/ PrebuildSpawn
  \/ BuildSucceeds
  \/ BuildFails
  \/ \E f \in DOMAIN libTasks : StageEnsureDir(f)
  \/ \E f \in DOMAIN libTasks : StageCopy(f)
  \/ \E f \in DOMAIN libTasks : StageFails(f)
  \/ TruncateCMake
  \/ RemoveBuild
  \/ FinishRun
  \/ Return
  \/ \E sdk \in SdkNumbers : RemoveVersionedVendoredModulesAsync(sdk)

Spec == Init /\ [][Next]_vars

(***************************************************************************)
(* One run in which the external build of modB leaves its libraries at     *)
(* drawn places below build/intermediates/library_jni/release/jni: at the  *)
(* top, in an architecture directory, or deeper.                           *)
(***************************************************************************)

LayoutLibs ==
  { <<"libB.so">>, <<"x86", "libB.so">>, <<"arm64-v8a", "libB.so">>,
    <<"deep", "x86", "libB.so">> }

LayoutTables ==
  {[m \in UnversionedModules |-> IF m = ModB THEN libs ELSE {}] :
     libs \in {l \in SUBSET LayoutLibs : Cardinality(l) <= 2}}

InitLayout ==
  /\ files = UnversionedFiles
  /\ dirs = AllDirsOf(files) \cup {UnversionedDir}
  /\ buildOut \in LayoutTables
  /\ op = "none"
  /\ pc = "idle"
  /\ error = "none"
  /\ sdkNumber = 0
  /\ filterModules = NullFilter
  /\ names = <<>>
  /\ idx = 0
  /\ pendingFiles = {}
  /\ libTasks = <<>>
  /\ spawned = {}
  /\ startFiles = files
  /\ startDirs = dirs
  /\ prevOp = NoOp

NextLayout ==
  \/ op = "none" /\ \E sdk \in SdkNumbers, filter \in Filters : VersionVendoredModulesAsync(sdk, filter)
  \/ BeginModule
  \/ \E f \in pendingFiles : CopyFile(f)
  \/ \E f \in pendingFiles : TransformFails(f)
  \/ PrebuildSkip
  \/ PrebuildSpawn
  \/ BuildSucceeds
  \/ BuildFails
  \/ \E f \in DOMAIN libTasks : StageEnsureDir(f)
  \/ \E f \in DOMAIN libTasks : StageCopy(f)
  \/ \E f \in DOMAIN libTasks : StageFails(f)
  \/ TruncateCMake
  \/ RemoveBuild
  \/ FinishRun

SpecLayout == InitLayout /\ [][NextLayout]_vars

(***************************************************************************)
(* A run over one module, modP, whose source files are drawn: its          *)
(* android/build.gradle and two files at any two distinct relative paths   *)
(* made of java, abi45_0_0 and x segments.                                 *)
(***************************************************************************)

InitPath ==
  /\ \E p1, p2 \in RelPaths :
       /\ ~IsPrefix(p1, p2)
       /\ ~IsPrefix(p2, p1)
       /\ files = [p \in {Join(UnversionedDir, Join(ModP, rel)) : rel \in {GradleRel, p1, p2}} |->
                     SourceContent(p)]
  /\ dirs = AllDirsOf(files)
  /\ buildOut = CHOOSE t \in BuildTables : TRUE
  /\ op = "none"
  /\ pc = "idle"
  /\ error = "none"
  /\ sdkNumber = 0
  /\ filterModules = NullFilter
  /\ names = <<>>
  /\ idx = 0
  /\ pendingFiles = {}
  /\ libTasks = <<>>
  /\ spawned = {}
  /\ startFiles = files
  /\ startDirs = dirs
  /\ prevOp = NoOp

NextPath ==
  \/ op = "none" /\ VersionVendoredModulesAsync(45, NullFilter)
  \/ BeginModule
  \/ \E f \in pendingFiles : CopyFile(f)
  \/ PrebuildSkip
  \/ FinishRun

SpecPath == InitPath /\ [][NextPath]_vars

(***************************************************************************)
(* Vocabulary of the properties.                                           *)
(***************************************************************************)

Running == op = "version"

TargetOf(module) == Join(vendoredDirectoryForSDK(sdkNumber), module)

HasStale(fs, dir) == \E p \in FilesUnder(fs, dir) : fs[p].kind = "stale"

PathRulesOf(module) == BasePathRules(PrefixTable[sdkNumber]) \o ModulePathRules(module)

ContentRulesOf(module) == BaseContentRules \o ModuleContentRules(module)

\* what copying rel of module writes, from the unversioned tree as it is now
Transformed(module, rel) ==
  TransformContent(files[Join(UnversionedDir, Join(module, rel))], rel,
                   ContentRulesOf(module), sdkNumber)

\* every source file of the module has its transformed copy in the target
AllSourcesTransformed(module) ==
  \A rel \in searchFiles(files, Join(UnversionedDir, module)) :
    LET dst == TargetPath(rel, TargetOf(module), PathRulesOf(module))
    IN /\ dst \in DOMAIN files
       /\ \/ files[dst] = Transformed(module, rel)
          \/ dst = CMakeFile(module, sdkNumber) /\ files[dst] = EmptyContent

HasDescriptor(module) == Join(UnversionedDir, Join(module, CMakeRel)) \in DOMAIN files

StagedLibs(module) ==
  {p \in FilesUnder(files, JniLibDir(module, sdkNumber)) : files[p].kind = "lib"}

\* C1: when the external build of a module fails, the run stops with the
\* module's CMakeLists.txt holding its transformed text (not truncated), no
\* library staged below its jniLibs, and every transformed source in place.
C1_BuildFailureKeepsDescriptor ==
  error = "build" =>
    /\ pc = "failed"
    /\ CMakeFile(CurModule, sdkNumber) \in DOMAIN files
    /\ files[CMakeFile(CurModule, sdkNumber)] = Transformed(CurModule, CMakeRel)
    /\ files[CMakeFile(CurModule, sdkNumber)] # EmptyContent
    /\ StagedLibs(CurModule) = {}
    /\ AllSourcesTransformed(CurModule)

C1_Witness ==
  /\ error = "build"
  /\ pc = "failed"
  /\ CurModule = ModB
  /\ Cardinality(searchFiles(files, TargetOf(ModB))) >= 3

\* C2: while a module is processed its target never holds a file of a prior
\* run: the old target is gone before the first file is written.
C2_NoStaleInTarget ==
  (Running /\ idx >= 1) =>
    \A j \in 1..idx : ~HasStale(files, TargetOf(names[j]))

C2_Witness ==
  /\ Running
  /\ pc = "copy"
  /\ HasStale(startFiles, TargetOf(CurModule))
  /\ FilesUnder(files, TargetOf(CurModule)) # {}
  /\ pendingFiles # {}

\* the module's target is complete: sources transformed, and when it has a
\* descriptor: libraries staged, descriptor truncated, build output removed
FullyVersioned(module) ==
  /\ AllSourcesTransformed(module)
  /\ ~HasStale(files, TargetOf(module))
  /\ HasDescriptor(module) =>
       /\ files[CMakeFile(module, sdkNumber)] = EmptyContent
       /\ \A f \in buildOut[module] :
            LET dst == LibDstPath(JniLibDir(module, sdkNumber), f)
            IN dst \in DOMAIN files /\ files[dst] = LibContent(module, sdkNumber, f)
       /\ FilesUnder(files, BuildDir(module, sdkNumber)) = {}

\* the module's target is as it was when the operation was called
Untouched(module) ==
  TreeUnder(files, dirs, TargetOf(module)) = TreeUnder(startFiles, startDirs, TargetOf(module))

\* C3 as stated: after a failure in module k, modules 1..k-1 are fully
\* versioned and the targets of modules k..n are as before the run.
C3_Original ==
  (Running /\ pc = "failed") =>
    /\ \A j \in 1..(idx - 1) : FullyVersioned(names[j])
    /\ \A j \in idx..Len(names) : Untouched(names[j])

\* C3 amended: at every point of a run, and so after a failure in module k,
\* the modules before the current one are fully versioned and the targets of
\* the modules after it are as before the run; the current module's own
\* target is the only one in between.
C3_SequentialPrefix ==
  (Running /\ idx >= 1) =>
    /\ \A j \in 1..(idx - 1) : FullyVersioned(names[j])
    /\ \A j \in (idx + 1)..Len(names) : Untouched(names[j])
    /\ pc \in {"loop", "done", "idle"} => FullyVersioned(names[idx])

C3_Witness ==
  /\ Running
  /\ pc = "failed"
  /\ idx = 2
  /\ Len(names) = 3
  /\ HasStale(files, TargetOf(names[3]))
  /\ HasDescriptor(names[1])
  /\ ~Untouched(names[2])

\* C4: a run with a filter changes nothing outside the target directories of
\* the modules the filter names.
C4_FilterFrame ==
  (Running /\ ~filterModules.isNull) =>
    LET Named(p) == \E i \in 1..Len(filterModules.names) :
                      IsPrefix(TargetOf(filterModules.names[i]), p)
    IN /\ \A p \in (DOMAIN files) \cup (DOMAIN startFiles) :
            ~Named(p) => /\ p \in DOMAIN files
                         /\ p \in DOMAIN startFiles
                         /\ files[p] = startFiles[p]
       /\ \A d \in dirs \cup startDirs :
            ~Named(d) => (d \in dirs /\ d \in startDirs) \/ (\E q \in DOMAIN files : Named(q) /\ IsPrefix(d, q))

C4_Witness ==
  /\ Running
  /\ pc = "done"
  /\ filterModules = ListFilter(<<ModB, ModA, ModB>>)
  /\ names = <<ModA, ModB>>
  /\ HasStale(files, TargetOf(ModC))
  /\ HasStale(files, TargetOf(ModOld))
  /\ HasStale(startFiles, TargetOf(ModA))

\* The files a complete versioning of one module leaves in its target, read
\* off the unversioned tree and the build's output: one transformed copy per
\* source file (the descriptor empty), one staged library per produced one.
ExpectedModuleFiles(module) ==
  LET sources == searchFiles(files, Join(UnversionedDir, module))
      Dst(rel) == TargetPath(rel, TargetOf(module), PathRulesOf(module))
      libs == IF CMakeRel \in sources THEN buildOut[module] ELSE {}
      LibDst(f) == LibDstPath(JniLibDir(module, sdkNumber), f)
      paths == {Dst(rel) : rel \in sources} \cup {LibDst(f) : f \in libs}
  IN [p \in paths |->
        IF \E f \in libs : LibDst(f) = p
          THEN LibContent(module, sdkNumber, CHOOSE f \in libs : LibDst(f) = p)
        ELSE IF p = CMakeFile(module, sdkNumber) THEN EmptyContent
        ELSE Transformed(module, CHOOSE rel \in sources : Dst(rel) = p)]

Regenerated(module) ==
  /\ [p \in FilesUnder(files, TargetOf(module)) |-> files[p]] = ExpectedModuleFiles(module)
  /\ {d \in dirs : IsPrefix(TargetOf(module), d)}
       = {d \in AllDirsOf(ExpectedModuleFiles(module)) : IsPrefix(TargetOf(module), d)}

VersionedDir == vendoredDirectoryForSDK(sdkNumber)

FullRunDone == Running /\ pc = "done" /\ filterModules.isNull

\* C5: a second full run for the same SDK, right after a first one, leaves
\* the filesystem exactly as the first run left it.
C5_SecondRunSameTree ==
  (FullRunDone /\ prevOp.op = "version" /\ prevOp.sdk = sdkNumber /\ prevOp.filter.isNull) =>
    /\ files = startFiles
    /\ dirs = startDirs

C5_Witness ==
  /\ FullRunDone
  /\ prevOp.op = "version" /\ prevOp.sdk = sdkNumber /\ prevOp.filter.isNull
  /\ HasStale(files, TargetOf(ModOld))
  /\ StagedLibs(ModB) # {}
  /\ files[CMakeFile(ModB, sdkNumber)] = EmptyContent

\* C6 as stated: after a successful full run the versioned tree of the SDK
\* holds no file of a prior run.
C6_Original ==
  FullRunDone => ~HasStale(files, VersionedDir)

\* C6 amended: after a successful full run the target of every discovered
\* module holds exactly the regenerated files; whatever the versioned tree
\* held outside those targets is still there, unchanged.
C6_DiscoveredTargetsRegenerated ==
  FullRunDone =>
    /\ \A j \in 1..Len(names) : Regenerated(names[j])
    /\ \A p \in (DOMAIN files) \cup (DOMAIN startFiles) :
         (\A j \in 1..Len(names) : ~IsPrefix(TargetOf(names[j]), p)) =>
           /\ p \in DOMAIN files
           /\ p \in DOMAIN startFiles
           /\ files[p] = startFiles[p]

C6_Witness ==
  /\ FullRunDone
  /\ Len(names) = 3
  /\ HasStale(startFiles, TargetOf(ModA))
  /\ HasStale(files, TargetOf(ModOld))

\* C7: a full run that follows removeVersionedModules of the same SDK, and a
\* full run started without a versioned directory for the SDK, both end with
\* the same versioned tree: the regenerated targets of the discovered modules
\* and nothing else.
C7_RemoveThenVersionIsCleanRun ==
  (FullRunDone /\ (\/ prevOp.op = "remove" /\ prevOp.sdk = sdkNumber
                   \/ FilesUnder(startFiles, VersionedDir) = {})) =>
    /\ \A j \in 1..Len(names) : Regenerated(names[j])
    /\ \A p \in FilesUnder(files, VersionedDir) :
         \E j \in 1..Len(names) : IsPrefix(TargetOf(names[j]), p)
    /\ \A d \in dirs : IsPrefix(VersionedDir, d) => \E p \in DOMAIN files : IsPrefix(d, p)

C7_Witness ==
  /\ FullRunDone
  /\ prevOp.op = "remove" /\ prevOp.sdk = sdkNumber
  /\ prevOp.filter.isNull
  /\ Len(names) = 3
  /\ \E n \in SdkNumbers : n # sdkNumber /\ HasStale(files, vendoredDirectoryForSDK(n))

\* C8: a module without android/CMakeLists.txt in its source gets no external
\* build, no jniLibs directory, no descriptor and no build directory in its
\* target, and the prebuilder raises no error for it.
C8_NoDescriptorNoPrebuild ==
  Running =>
    \A j \in 1..idx :
      ~HasDescriptor(names[j]) =>
        /\ names[j] \notin spawned
        /\ JniLibDir(names[j], sdkNumber) \notin dirs
        /\ BuildDir(names[j], sdkNumber) \notin dirs
        /\ CMakeFile(names[j], sdkNumber) \notin DOMAIN files
        /\ j = idx => /\ pc \notin {"spawn", "stage", "cleanup"}
                      /\ pc = "failed" => error = "transform"
                      /\ (pc = "copy" /\ pendingFiles = {}) => ENABLED PrebuildSkip

C8_Witness ==
  /\ Running
  /\ pc = "copy"
  /\ idx = 3
  /\ names[2] = ModA
  /\ CMakeFile(ModA, sdkNumber) \in DOMAIN startFiles
  /\ JniLibDir(ModA, sdkNumber) \in startDirs
  /\ FilesUnder(files, TargetOf(ModA)) # {}

InModule == Running /\ idx >= 1 /\ pc \in {"copy", "spawn", "stage", "cleanup", "failed"}

BuildFilesOf(fs) == FilesUnder(fs, BuildDir(CurModule, sdkNumber))

IsEmptyDescriptor(fs) ==
  /\ CMakeFile(CurModule, sdkNumber) \in DOMAIN fs
  /\ fs[CMakeFile(CurModule, sdkNumber)] = EmptyContent

\* C9: for a module with a descriptor the steps come in this order: every
\* file transformed, then the build's output appears, then the libraries are
\* staged from it, then the descriptor is emptied (never while a copy is
\* pending), then the build directory is removed.
C9_PrebuildOrder ==
  [][ (InModule /\ idx' = idx) =>
        /\ ~(BuildFilesOf(files') \subseteq BuildFilesOf(files)) =>
             /\ pendingFiles = {}
             /\ AllSourcesTransformed(CurModule)
             /\ ~IsEmptyDescriptor(files)
        /\ \A p \in FilesUnder(files', JniLibDir(CurModule, sdkNumber)) :
             (p \notin DOMAIN files \/ files'[p] # files[p]) =>
               /\ \E f \in GlobLibFiles(files, BuildLibDir(CurModule, sdkNumber)) :
                    /\ LibDstPath(JniLibDir(CurModule, sdkNumber), f) = p
                    /\ files'[p] = files[Join(BuildLibDir(CurModule, sdkNumber), f)]
               /\ ~IsEmptyDescriptor(files)
        /\ (IsEmptyDescriptor(files') /\ ~IsEmptyDescriptor(files)) =>
             /\ \A f \in DOMAIN libTasks : libTasks[f] = "done"
             /\ DOMAIN libTasks = buildOut[CurModule]
             /\ \A f \in GlobLibFiles(files, BuildLibDir(CurModule, sdkNumber)) :
                  LET dst == LibDstPath(JniLibDir(CurModule, sdkNumber), f)
                  IN dst \in DOMAIN files
                     /\ files[dst] = files[Join(BuildLibDir(CurModule, sdkNumber), f)]
             /\ BuildFilesOf(files) # {}
        /\ (BuildFilesOf(files) # {} /\ BuildFilesOf(files') = {}) =>
             IsEmptyDescriptor(files)
    ]_vars

C9_Witness ==
  /\ Running
  /\ pc = "cleanup"
  /\ CurModule = ModB
  /\ Cardinality(StagedLibs(ModB)) >= 2
  /\ IsEmptyDescriptor(files)
  /\ BuildFilesOf(files) # {}

\* C10: when the transform of a file fails the run stops at once: nothing is
\* written or deleted afterwards, the failing module gets no external build,
\* and the targets of the later modules are as before the run.
C10_TransformFailureStops ==
  /\ [](error = "transform" =>
          /\ pc = "failed"
          /\ pendingFiles # {}
          /\ CurModule \notin spawned
          /\ BuildFilesOf(files) = {}
          /\ \A j \in (idx + 1)..Len(names) : Untouched(names[j]))
  /\ [][error = "transform" =>
          UNCHANGED <<files, dirs, idx, pendingFiles, spawned, libTasks>>]_vars

C10_Witness ==
  /\ error = "transform"
  /\ idx = 2
  /\ Len(names) = 3
  /\ HasStale(files, TargetOf(names[3]))
  /\ Cardinality(pendingFiles) = 2
  /\ FilesUnder(files, TargetOf(names[2])) # {}

\* C11: removeVersionedModules(N) leaves nothing of the versioned tree of N
\* and changes nothing else: the trees of the other SDKs and the unversioned
\* tree are as before, and with no tree for N the filesystem is unchanged.
C11_RemoveFrame ==
  op = "remove" =>
    /\ pc = "idle"
    /\ FilesUnder(files, VersionedDir) = {}
    /\ {d \in dirs : IsPrefix(VersionedDir, d)} = {}
    /\ \A p \in DOMAIN startFiles :
         ~IsPrefix(VersionedDir, p) => (p \in DOMAIN files /\ files[p] = startFiles[p])
    /\ \A d \in startDirs : ~IsPrefix(VersionedDir, d) => d \in dirs
    /\ DOMAIN files \subseteq DOMAIN startFiles
    /\ dirs \subseteq startDirs
    /\ VersionedDir \notin startDirs => (files = startFiles /\ dirs = startDirs)

C11_Witness ==
  /\ op = "remove"
  /\ HasStale(startFiles, VersionedDir)
  /\ \E n \in SdkNumbers : n # sdkNumber /\ HasStale(files, vendoredDirectoryForSDK(n))
  /\ files # startFiles

\* C12: without an unversioned root directory the discovery finds no module
\* and the run ends without error, having deleted, written and built nothing.
C12_MissingRootIsEmptyRun ==
  (Running /\ UnversionedDir \notin startDirs) =>
    /\ names = <<>>
    /\ files = startFiles
    /\ dirs = startDirs
    /\ spawned = {}
    /\ error = "none"
    /\ pc \in {"loop", "done", "idle"}
    /\ pc = "loop" => ENABLED FinishRun

C12_Witness ==
  /\ Running
  /\ pc = "done"
  /\ UnversionedDir \notin dirs
  /\ FilesUnder(files, UnversionedDir) = {}
  /\ HasStale(files, VersionedDir)

Discovered == getVendoredModuleNames(startFiles, UnversionedDir)

PositionIn(seq, m) == CHOOSE i \in 1..Len(seq) : seq[i] = m

InFilter(m) == \E i \in 1..Len(filterModules.names) : filterModules.names[i] = m

\* C13: with a filter the selected modules are the discovered modules the
\* filter names, each once and in discovery order whatever the filter's order
\* or repetitions; names that match nothing are dropped without error, and a
\* finished run has regenerated exactly the selected modules' targets.
C13_FilterSelectsInDiscoveryOrder ==
  (Running /\ ~filterModules.isNull) =>
    /\ {names[j] : j \in 1..Len(names)}
         = {Discovered[i] : i \in {k \in 1..Len(Discovered) : InFilter(Discovered[k])}}
    /\ \A i, j \in 1..Len(names) :
         i < j => PositionIn(Discovered, names[i]) < PositionIn(Discovered, names[j])
    /\ pc = "failed" => error \in {"transform", "build", "copy"} /\ idx >= 1
    /\ pc = "done" =>
         \A i \in 1..Len(Discovered) :
           IF InFilter(Discovered[i]) THEN Regenerated(Discovered[i])
           ELSE Untouched(Discovered[i])

C13_Witness ==
  /\ Running
  /\ pc = "done"
  /\ error = "none"
  /\ filterModules.names = <<ModB, ModA, ModB>>
  /\ Len(names) = 2
  /\ Len(Discovered) = 3
  /\ ~Untouched(ModA)
  /\ ~Untouched(ModB)

\* C14: every copied file went through the base path rules and then the
\* module's path rules, and through the base content rules and then the
\* module's content rules; a module without an entry got the base rules only.
C14_BaseRulesThenOverrides ==
  Running =>
    \A j \in 1..idx :
      \A rel \in searchFiles(files, Join(UnversionedDir, names[j])) :
        (j < idx \/ rel \notin pendingFiles) =>
          LET m == names[j]
              viaBase == TransformPath(rel, BasePathRules(PrefixTable[sdkNumber]))
              dst == Join(TargetOf(m), TransformPath(viaBase, ModulePathRules(m)))
              baseIds == ApplicableRules(rel, BaseContentRules)
              moduleIds == ApplicableRules(rel, ModuleContentRules(m))
          IN /\ dst \in DOMAIN files
             /\ files[dst].kind = "source" =>
                  /\ files[dst].origin = Join(UnversionedDir, Join(m, rel))
                  /\ files[dst].applied = baseIds \o moduleIds
                  /\ (ModuleContentRules(m) = <<>>) => files[dst].applied = baseIds
             /\ (ModulePathRules(m) = <<>>) => dst = Join(TargetOf(m), viaBase)

C14_Witness ==
  /\ FullRunDone
  /\ Join(TargetOf(ModB), <<"android", "src", "main", "kotlin", PrefixTable[sdkNumber], "com", "Foo.java">>)
       \in DOMAIN files
  /\ files[Join(TargetOf(ModC), GradleRel)].applied
       = <<"rnDependency", "buildDirJni", "reactNativeDir", "rnAAR", "modCOverride">>
  /\ files[Join(TargetOf(ModA), GradleRel)].applied
       = <<"rnDependency", "buildDirJni", "reactNativeDir", "rnAAR">>

CopiedFiles(module) ==
  {rel \in searchFiles(files, Join(UnversionedDir, module)) :
     module # CurModule \/ rel \notin pendingFiles}

\* C15: the files of one module go to pairwise distinct destinations, so
\* every copied file is found at its own destination with its own bytes; the
\* drawn paths include ones that already hold the prefix directory and ones
\* with several java segments.
C15_DistinctDestinations ==
  (Running /\ idx >= 1) =>
    /\ \A r1, r2 \in searchFiles(files, SourceDirectory) :
         r1 # r2 => TargetPath(r1, TargetDirectory, PathRulesOf(CurModule))
                      # TargetPath(r2, TargetDirectory, PathRulesOf(CurModule))
    /\ \A rel \in CopiedFiles(CurModule) :
         LET dst == TargetPath(rel, TargetDirectory, PathRulesOf(CurModule))
         IN /\ dst \in DOMAIN files
            /\ files[dst].origin = Join(SourceDirectory, rel)
    /\ Cardinality(FilesUnder(files, TargetDirectory)) = Cardinality(CopiedFiles(CurModule))

C15_Witness ==
  /\ Running
  /\ pc = "done"
  /\ CurModule = ModP
  /\ Join(SourceDirectory, <<"x", "java", "abi45_0_0", "x">>) \in DOMAIN files
  /\ Join(SourceDirectory, <<"x", "java", "java", "x">>) \in DOMAIN files
  /\ Join(TargetDirectory, <<"x", "java", "abi45_0_0", "abi45_0_0", "x">>) \in DOMAIN files
  /\ Join(TargetDirectory, <<"x", "java", "abi45_0_0", "java", "x">>) \in DOMAIN files

OtherSdks == SdkNumbers \ {sdkNumber}

\* C16: prefix and versioned directory differ for different SDK numbers, and
\* while SDK N is versioned the versioned tree of every other SDK number stays
\* as it was when the run was called; what the run writes carries the prefix
\* of N only.
C16_OtherSdkTreesUntouched ==
  Running =>
    /\ \A m \in 0..MaxSdkNumber :
         m # sdkNumber => /\ versionPrefix(m) # versionPrefix(sdkNumber)
                          /\ sdkDirName(m) # sdkDirName(sdkNumber)
    /\ \A m \in OtherSdks :
         /\ PrefixTable[m] # PrefixTable[sdkNumber]
         /\ vendoredDirectoryForSDK(m) # vendoredDirectoryForSDK(sdkNumber)
         /\ ~IsPrefix(vendoredDirectoryForSDK(sdkNumber), vendoredDirectoryForSDK(m))
         /\ TreeUnder(files, dirs, vendoredDirectoryForSDK(m))
              = TreeUnder(startFiles, startDirs, vendoredDirectoryForSDK(m))
    /\ \A p \in DOMAIN files :
         (p \notin DOMAIN startFiles \/ files[p] # startFiles[p])
           => /\ IsPrefix(vendoredDirectoryForSDK(sdkNumber), p)
              /\ files[p].abi \in {0, sdkNumber}

C16_Witness ==
  /\ Running
  /\ pc = "done"
  /\ sdkNumber = 45
  /\ prevOp.op = "version"
  /\ prevOp.sdk = 44
  /\ \E p \in DOMAIN files : IsPrefix(vendoredDirectoryForSDK(44), p) /\ files[p].abi = 44
  /\ \E p \in DOMAIN files : IsPrefix(vendoredDirectoryForSDK(45), p) /\ files[p].abi = 45

\* the build of the current module has succeeded without any library
BuiltNoLibs ==
  /\ Running
  /\ idx >= 1
  /\ CurModule \in spawned
  /\ buildOut[CurModule] = {}
  /\ pc \in {"stage", "cleanup", "loop", "done"}

\* C17: the assertion on the number of libraries never fails; after a build
\* that succeeds with no library no error is raised, nothing is staged, the
\* descriptor is truncated next and the build output is deleted after that.
C17_ZeroLibsIsNoError ==
  /\ error # "assert"
  /\ BuiltNoLibs =>
       /\ error = "none"
       /\ DOMAIN libTasks = {}
       /\ FilesUnder(files, JniLibDir(CurModule, sdkNumber)) = {}
       /\ JniLibDir(CurModule, sdkNumber) \notin dirs
       /\ pc = "stage" => ENABLED TruncateCMake
       /\ pc \in {"cleanup", "loop", "done"} => IsEmptyDescriptor(files)
       /\ pc = "cleanup" => ENABLED RemoveBuild
       /\ pc \in {"loop", "done"} =>
            /\ BuildFilesOf(files) = {}
            /\ BuildDir(CurModule, sdkNumber) \notin dirs

C17_Witness ==
  /\ BuiltNoLibs
  /\ CurModule = ModC
  /\ pc = "loop"
  /\ IsEmptyDescriptor(files)
  /\ BuildFilesOf(files) = {}

LibDstOf(file) == LibDstPath(JniLibDir(CurModule, sdkNumber), file)

\* C18: the copies of the produced libraries go to pairwise distinct staged
\* files, so once all copies are done every produced library is found at its
\* destination with its own bytes.
C18_Original ==
  (Running /\ pc \in {"stage", "cleanup"}) =>
    /\ \A f, g \in DOMAIN libTasks : f # g => LibDstOf(f) # LibDstOf(g)
    /\ pc = "cleanup" =>
         \A f \in DOMAIN libTasks :
           /\ LibDstOf(f) \in DOMAIN files
           /\ files[LibDstOf(f)] = LibContent(CurModule, sdkNumber, f)

\* the paths whose file entry differs between fs and gs
ChangedFiles(fs, gs) ==
  {p \in DOMAIN fs \cup DOMAIN gs :
     p \notin DOMAIN fs \/ p \notin DOMAIN gs \/ fs[p] # gs[p]}

\* the directories that exist in only one of ds and es
ChangedDirs(ds, es) == (ds \ es) \cup (es \ ds)

\* C19: every step of versioning or removing changes files and directories
\* under the versioned directory of the given SDK number only, and leaves
\* the unversioned tree as it is, in runs that succeed and in runs that fail.
C19_OnlyVersionedDirChanges ==
  [][ /\ \A p \in ChangedFiles(files, files') \cup ChangedDirs(dirs, dirs') :
           /\ op' \in {"version", "remove"}
           /\ IsPrefix(vendoredDirectoryForSDK(sdkNumber'), p)
           /\ ~IsPrefix(UnversionedDir, p)
      /\ TreeUnder(files', dirs', UnversionedDir) = TreeUnder(files, dirs, UnversionedDir)
    ]_vars

C19_Witness ==
  /\ Running
  /\ pc = "failed"
  /\ error = "copy"
  /\ StagedLibs(CurModule) # {}
  /\ BuildFilesOf(files) # {}
  /\ FilesUnder(startFiles, UnversionedDir) # {}
  /\ TreeUnder(files, dirs, UnversionedDir) = TreeUnder(startFiles, startDirs, UnversionedDir)
  /\ ChangedFiles(startFiles, files) # {}

====
